---- MODULE Spec2Model ----
(***************************************************************************)
(* Model of the compressed-token issuance ("flash wallet") saga of         *)
(* CreateTokenForm.tsx: handleSubmit -> createLightToken, with the         *)
(* bounded rejection sampling of generateCompressedKeypair and the ledger  *)
(* balance of the ephemeral account the saga funds, spends and refunds.    *)
(* EncSpec applies serializeMetadataData of tokenMetadata.ts to metadata    *)
(* payloads; JavaScript strings are sequences of UTF-16 code units.         *)
(***************************************************************************)
EXTENDS Integers, FiniteSets, Sequences, TLC

\* ------------------------------------------------------------------ bounds
\* Number of form submissions explored.
MaxRuns == 2
\* Calls of the deriver and the encoder made before the repeated call.
MaxEncCalls == 2

\* ------------------------------------------------------- program constants
maxAttempts == 1000
fundAmount == 5000000
minBuffer == 5000
emergencyBuffer == 5000
CREATE_METADATA_V3_DISCRIMINATOR == 33
NameLimit == 32
SymbolLimit == 10
UriLimit == 200

\* ------------------------------------------------------------- environment
\* On-ledger cost of one operate-phase action (fee + rent), in lamports.
OperateCosts == {1000, 1500, 2497500, 4996000}
\* Fee the ledger charges the fee payer of a refund transfer.
RefundFees == {2500, 5000}
\* type NetworkType = 'devnet' | 'mainnet-beta' | 'localnet'
Networks == {"devnet", "mainnet-beta", "localnet"}

\* App: const [network] = useState<NetworkType>('devnet'); <WalletProvider network={network}>:
\* the network whose endpoint the connection of every issuance talks to.
ProviderNetwork == "devnet"

\* useState<'spl' | 'light'>
TokenTypes == {"spl", "light"}
\* The image field is rendered for the standard type only, and the image, the
\* upload service and the btoa fallback are read by createSPLToken alone; for a
\* compressed issuance they are left at their defaults.
MetadataInputsRead(type) == type = "spl"

\* What the wallet adapter offers: no public key, a public key without
\* signTransaction, or both.
Wallets == {"none", "nosign", "full"}
\* parseFloat(formData.initialSupply), 0 when the field is empty.
Supplies == {0, 1}

VARIABLES
    pc,              \* position of the single thread of control
    runs,            \* submissions started so far
    wallet,          \* publicKey / signTransaction of useWallet()
    formOk,          \* formData.name and formData.symbol are non-empty
    initialSupply,   \* local of createLightToken
    loading,         \* component state
    attempts,        \* local of generateCompressedKeypair
    flashPayer,      \* 0 = undefined, else the id of the generated key pair
    ephBalance,      \* ledger balance of flashPayer.publicKey
    spent,           \* lamports the operate phase debited from it
    fundConfirmed,   \* confirmTransaction of the funding transfer returned
    mintDone,        \* createCompressedMint returned
    mintToDone,      \* mintToCompressed returned
    remainingBalance,\* local of Step 5 (-1 before the query)
    refundAmount,    \* local of Step 5 (-1 when no transfer was built)
    refundStep,      \* "none", "skipped", "transferred": how Step 5 ended
    emBalance,       \* local `balance` of the catch block (-1 before the query)
    emRefundAmount,  \* local `refundAmount` of the catch block
    unconfirmed,     \* submitted transactions whose confirmation was not awaited yet
    error,           \* the value caught by createLightToken's catch
    refundError,     \* the value caught by the inner catch
    logged,          \* values written with console.error
    surfaced,        \* the value createLightToken threw to handleSubmit
    toast,           \* description of toast.error
    result,          \* "none", "success", "error"
    created,         \* calls of onTokenCreated in this submission
    calls,           \* calls of each collaborator in this submission
    metadata,        \* argument of serializeMetadataData
    encoded,         \* what serializeMetadataData returned or threw
    tokenType,       \* component state: 'spl' or 'light'
    hasImage,        \* formData.image is non-empty
    textLatin1,      \* every character of the form's texts is at most U+00FF
    pinataConfigured,\* isPinataConfigured()
    instructions,    \* instructions of createSPLToken's transaction, in order
    metadataURI,     \* local of createSPLToken: "none", "pinned", "fallback"
    uploadThrew,     \* uploadMetadataToPinata threw in this submission
    txReady,         \* recentBlockhash and feePayer are set on the transaction
    txSigned,        \* who has signed createSPLToken's transaction
    pastKeys,        \* ephemeral key pairs of the earlier submissions
    txs,             \* transactions and delegated actions handed to the ledger
    mintAuthority,   \* mint authority of the mint this submission created
    returned,        \* value createSPLToken / createLightToken returned
    tokenRecord,     \* argument of onTokenCreated
    fetched,         \* number of blockhashes getLatestBlockhash has returned in this submission
    submitted,       \* which blockhash each transaction handed to sendRawTransaction carries
    wrapsOnOverflow, \* this build's writeUInt16LE keeps the low 16 bits instead of throwing
    encCalls,        \* calls of the deriver and the encoder made so far
    pda,             \* mint passed to getMetadataPDA and the address it returned
    again,           \* what the same two calls returned when repeated
    keyFits,         \* the key pair in flashPayer passed isSmallerThanBn254FieldSizeBe
    fitsSeen,        \* key pairs generated by this call that passed the predicate
    network,         \* AppContent's network state, the `network` prop of the form
    inFlight,        \* executions of handleSubmit between setLoading(true) and its finally
    formData,        \* component state: the form's fields
    form,            \* the decimals and supply fields and the type handleSubmit reads
    parsed,          \* what the issuance and the history entry made of them
    tokens,          \* useTokenRegistry's state
    stored           \* localStorage's item under STORAGE_KEY

vars == <<pc, runs, wallet, formOk, initialSupply, loading, attempts, flashPayer,
          ephBalance, spent, fundConfirmed, mintDone, mintToDone, remainingBalance,
          refundAmount, refundStep, emBalance, emRefundAmount, unconfirmed, error,
          refundError, logged, surfaced, toast, result, created, calls, metadata,
          encoded, tokenType, hasImage, textLatin1, pinataConfigured, instructions,
          metadataURI, uploadThrew, txReady, txSigned, pastKeys, txs, mintAuthority,
          returned, tokenRecord, fetched, submitted, wrapsOnOverflow, encCalls, pda,
          again, keyFits, fitsSeen, network, inFlight, formData, form, parsed, tokens,
          stored>>

inputVars == <<wallet, formOk, initialSupply, tokenType, hasImage, textLatin1,
               pinataConfigured>>
splVars == <<instructions, metadataURI, uploadThrew, txReady, txSigned>>
obsVars == <<txs, mintAuthority, returned, tokenRecord, formData>>
freshVars == <<fetched, submitted>>
keyVars == <<keyFits, fitsSeen>>
formVars == <<form, parsed>>
regVars == <<tokens, stored>>
appVars == <<network, formVars, regVars>>
ledgerVars == <<ephBalance, spent>>
opVars == <<fundConfirmed, mintDone, mintToDone>>
refundVars == <<remainingBalance, refundAmount, refundStep>>
emVars == <<emBalance, emRefundAmount>>
errVars == <<error, refundError, logged, surfaced>>
uiVars == <<loading, inFlight, toast, result, created>>
encVars == <<metadata, encoded, wrapsOnOverflow, encCalls, pda, again>>

NoError == [step |-> "none", kind |-> "none"]
Err(step, kind) == [step |-> step, kind |-> kind]

NoCalls == [sign |-> 0, fundSend |-> 0, fundConfirm |-> 0, createMint |-> 0, mintTo |-> 0,
            balanceQuery |-> 0, refundSend |-> 0, refundConfirm |-> 0,
            compQuery |-> 0, compSend |-> 0, compConfirm |-> 0,
            splSend |-> 0, splConfirm |-> 0]
Called(c) == [calls EXCEPT ![c] = @ + 1]

FundingSteps == {"fund_blockhash", "fund_sign", "fund_send", "fund_confirm"}
OperateSteps == {"create_mint", "mint_to"}
RefundSteps == {"refund_balance", "refund_blockhash", "refund_send", "refund_confirm"}

\* ----------------------------------------------------------------- helpers
\* if (isSmallerThanBn254FieldSizeBe(keypair.publicKey.toBuffer())) { ...; return keypair }
KeygenAcceptsAny(fits) == TRUE
KeygenAccepts(fits) == fits

\* while (attempts < maxAttempts)
KeygenOffByOne(n) == n <= maxAttempts
KeygenMayAttempt(n) == n < maxAttempts

\* A throw inside the try block transfers control to its catch clause.
OnFailureRefetch(step) ==
    IF step = "fund_blockhash" THEN "refund_blockhash"
    ELSE IF step = "refund_blockhash" THEN "fund_blockhash" ELSE "catch"
OnFailureRetry(step) == step
OnFailure(step) == "catch"

\* if (remainingBalance > minBuffer)
ShouldRefundAtReserve(balance) == balance >= minBuffer
ShouldRefund(balance) == balance > minBuffer

\* const refundAmount = remainingBalance - minBuffer
RefundAmountNoReserve(balance) == balance
RefundAmountOf(balance) == balance - minBuffer

\* if (balance > 5000) in the catch block
ShouldEmergencyRefundAlways(balance) == TRUE
ShouldEmergencyRefund(balance) == balance > emergencyBuffer

\* const refundAmount = balance - 5000 in the catch block
EmergencyRefundAmountOf(balance) == balance - emergencyBuffer

\* if (flashPayer) { ... emergency refund ... }
CompensationNever(fp) == FALSE
CompensationEnabled(fp) == fp # 0

\* if (initialSupply > 0) { mintToCompressed(...) }
AfterCreateMintAlwaysMintTo(supply) == "mint_to"
AfterCreateMintSkipMintTo(supply) == "refund_balance"
AfterCreateMint(supply) == IF supply > 0 THEN "mint_to" ELSE "refund_balance"

\* throw error, the last statement of the catch clause
RethrownCompensationError(e, re) == IF re # NoError THEN re ELSE e
Rethrown(e, re) == e

\* console.error('Emergency refund failed:', refundError)
RefundErrorSwallowed(log, re) == log
LogRefundError(log, re) == log \cup {re}

\* error instanceof Error ? error.message : 'Unknown error occurred'
ErrorMessage(e) == IF e.kind = "NonErrorRejection" THEN "Unknown error occurred" ELSE e.kind

\* connection.getBalance(flashPayer.publicKey)
GetBalance == ephBalance

\* What createLightToken hands to its caller on failure: the thrown value.
ReportedToCaller == {surfaced}

\* Keypair.generate(): a key pair no earlier submission generated.
ReusedKey(past) == 1
FreshKey(past) == Cardinality(past) + 1

\* const { blockhash, lastValidBlockHeight } = await connection.getLatestBlockhash('confirmed'):
\* the n-th call of a submission returns blockhash n.
CachedBlockhash(n) == IF n = 0 THEN 1 ELSE n
FetchBlockhash(n) == n + 1

\* tx.recentBlockhash = blockhash; ...; sendRawTransaction(tx.serialize())
Submission(kind, blockhash) == [kind |-> kind, blockhash |-> blockhash]

\* One entry of what is handed to the ledger: who pays, who signed, what moves.
Tx(kind, from, to, lamports, feePayer, signers, authority) ==
    [kind |-> kind, from |-> from, to |-> to, lamports |-> lamports,
     feePayer |-> feePayer, signers |-> signers, authority |-> authority]

\* SystemProgram.transfer({fromPubkey: publicKey, toPubkey: flashPayer.publicKey,
\* lamports: fundAmount}), feePayer = publicKey, signed by signTransaction
FundTx == Tx("fund", "user", "flash", fundAmount, "user", {"user"}, "none")

\* SystemProgram.transfer({fromPubkey: flashPayer.publicKey, toPubkey: publicKey,
\* lamports: refundAmount}), feePayer = flashPayer.publicKey, sign(flashPayer)
RefundTxToMint(kind, amount) == Tx(kind, "flash", "lightMint", amount, "flash", {"flash"}, "none")
RefundTxUserPays(kind, amount) ==
    Tx(kind, "flash", "user", amount, "user", {"flash", "user"}, "none")
RefundTx(kind, amount) == Tx(kind, "flash", "user", amount, "flash", {"flash"}, "none")

\* createCompressedMint(rpc, flashPayer, flashPayer.publicKey, decimals, ...)
CreateMintCall == Tx("createMint", "none", "none", 0, "flash", {"flash"}, "flash")

\* mintToCompressed(rpc, flashPayer, mint, publicKey, flashPayer, amount)
MintToCall == Tx("mintTo", "none", "user", 0, "flash", {"flash"}, "flash")

\* createInitializeMintInstruction(mintKeypair.publicKey, decimals, publicKey, null, ...)
SplMintAuthorityIsMintKey == "mint"
SplMintAuthority == "user"

NoResult == [mint |-> "none", signature |-> "none"]
NoToken ==
    [mint |-> "none", creator |-> "none", type |-> "none", signature |-> "none",
     network |-> "none", initialSupply |-> {}]

\* return { mint: mint.toString(), signature: finalSignature }
LightResult(supply) ==
    [mint |-> "lightMint", signature |-> IF supply > 0 THEN "mintToSignature" ELSE "mintSignature"]

\* const token: TokenMetadata = { mint: result.mint, ..., creator: publicKey.toString(),
\* type: tokenType, signature: result.signature }
\* initialSupply: formData.initialSupply ? parseFloat(...) : undefined; an optional
\* value is the set of its values, empty when undefined.
TokenRecord(res, type, net, supply) ==
    [mint |-> res.mint, creator |-> "user", type |-> type, signature |-> res.signature,
     network |-> net, initialSupply |-> IF supply > 0 THEN {supply} ELSE {}]

\* const [formData, setFormData] = useState({ name: '', symbol: '', ..., initialSupply: '',
\* image: '', ... }), and the same value in the reset after onTokenCreated.
FormFields(filled, supply, image) == [filled |-> filled, supply |-> supply, image |-> image]
EmptyForm == FormFields(FALSE, 0, FALSE)

\* <Button type="submit" disabled={loading || !publicKey}>: no submit event is delivered
\* while loading is set.
SubmitEnabledAlways(isLoading) == TRUE
SubmitEnabled(isLoading) == ~isLoading

\* if (!publicKey) { alert(...); return; } if (!formData.name || !formData.symbol) { ... return; }
PrecheckPassesAlways(w, filled) == TRUE
PrecheckPasses(w, filled) == w # "none" /\ filled

\* A JavaScript number that is NaN or an integer.
NaN == [nan |-> TRUE, value |-> 0]
Num(n) == [nan |-> FALSE, value |-> n]
Truthy(num) == ~num.nan /\ num.value # 0

\* The text of a number input holding n, as code units ("0" is 48).
Digits(n) == IF n < 10 THEN <<48 + n>> ELSE <<48 + (n \div 10), 48 + (n % 10)>>

RECURSIVE DigitsValue(_)
DigitsValue(str) ==
    IF Len(str) = 0
       THEN 0
       ELSE 10 * DigitsValue(SubSeq(str, 1, Len(str) - 1)) + (str[Len(str)] - 48)

\* parseInt of a number input's text: NaN for the empty text.
ParseInt(str) == IF Len(str) = 0 THEN NaN ELSE Num(DigitsValue(str))

\* <Input id="decimals" type="number" min="0" max="18">
MaxDecimals == 18
DefaultDecimals == 9

\* parseInt(formData.decimals) || 9
ParseDecimals(str) ==
    IF Truthy(ParseInt(str)) THEN ParseInt(str).value ELSE DefaultDecimals

\* formData.initialSupply ? parseFloat(formData.initialSupply) : 0
ParseSupply(str) == IF Len(str) = 0 THEN 0 ELSE DigitsValue(str)

\* BigInt(Math.floor(initialSupply * 10 ** decimals)), kept as the two factors; no
\* amount when initialSupply is not positive.
NoAmount == [units |-> 0, exp10 |-> 0]
ScaledAmount(supply, decimals) ==
    IF supply > 0 THEN [units |-> supply, exp10 |-> decimals] ELSE NoAmount

DecimalFields == {<<>>} \cup {Digits(d) : d \in 0..MaxDecimals}
SupplyFields == {<<>>, Digits(1), Digits(25)}
Forms == [decimals : DecimalFields, initialSupply : SupplyFields, type : TokenTypes]
DefaultForm == [decimals |-> Digits(DefaultDecimals), initialSupply |-> <<>>, type |-> "spl"]
NotParsed == [path |-> "none", mintDecimals |-> -1, amount |-> NoAmount, recorded |-> -1]

\* localStorage's item: absent, or the text JSON.stringify wrote, kept as the list of
\* its objects.
NoItem == [present |-> FALSE, items |-> <<>>]
Item(objects) == [present |-> TRUE, items |-> objects]

\* JSON.stringify of a token: a property whose value is undefined is left out, a number
\* is written as its digits.
StringifyToken(token) ==
    IF token.initialSupply = {}
       THEN [mint |-> token.mint, creator |-> token.creator, type |-> token.type,
             signature |-> token.signature, network |-> token.network]
       ELSE [mint |-> token.mint, creator |-> token.creator, type |-> token.type,
             signature |-> token.signature, network |-> token.network,
             initialSupply |-> Digits(CHOOSE n \in token.initialSupply : TRUE)]
Stringify(list) == [i \in 1..Len(list) |-> StringifyToken(list[i])]

\* JSON.parse: a property that is not in the text reads as undefined.
ParseToken(object) ==
    [mint |-> object.mint, creator |-> object.creator, type |-> object.type,
     signature |-> object.signature, network |-> object.network,
     initialSupply |-> IF "initialSupply" \in DOMAIN object
                          THEN {DigitsValue(object.initialSupply)}
                          ELSE {}]
Parse(objects) == [i \in 1..Len(objects) |-> ParseToken(objects[i])]

\* useState(() => { const stored = localStorage.getItem(STORAGE_KEY);
\* return stored ? JSON.parse(stored) : []; })
InitialTokens(item) == IF item.present THEN Parse(item.items) ELSE <<>>

\* const updated = [...prev, token]
UpdatedPrepend(prev, token) == <<token>> \o prev
Updated(prev, token) == Append(prev, token)

MaxTokens == 2

\* A throw of `kind` by the statement at `step`, inside the try block.
Throw(step, kind) ==
    /\ error' = Err(step, kind)
    /\ pc' = OnFailure(step)

\* Lamports a transaction that did not succeed may still have cost the payer.
FailureDebits == {0} \cup {c \in OperateCosts : c <= ephBalance}


\* --------------------------------------------------- serializeMetadataData
Min(a, b) == IF a < b THEN a ELSE b
Rep(u, n) == [i \in 1..n |-> u]
Take(s, n) == SubSeq(s, 1, Min(n, Len(s)))

\* String.prototype.slice(0, n): the first n UTF-16 code units
Slice(s, n) == SubSeq(s, 1, Min(n, Len(s)))

IsHighSurrogate(u) == u >= 55296 /\ u <= 56319
IsLowSurrogate(u) == u >= 56320 /\ u <= 57343

\* UTF-8 bytes of one code point
Utf8OfCodePoint(cp) ==
    IF cp < 128 THEN <<cp>>
    ELSE IF cp < 2048 THEN <<192 + (cp \div 64), 128 + (cp % 64)>>
    ELSE IF cp < 65536
         THEN <<224 + (cp \div 4096), 128 + ((cp \div 64) % 64), 128 + (cp % 64)>>
    ELSE <<240 + (cp \div 262144), 128 + ((cp \div 4096) % 64),
           128 + ((cp \div 64) % 64), 128 + (cp % 64)>>

\* Buffer.from(string): UTF-8 of the code units; a surrogate pair is one
\* code point, a lone surrogate is written as U+FFFD (EF BF BD).
\* The bytes the code unit at index i contributes.
Utf8OfUnit(s, i) ==
    IF IsHighSurrogate(s[i]) /\ i < Len(s) /\ IsLowSurrogate(s[i + 1])
       THEN Utf8OfCodePoint(65536 + (s[i] - 55296) * 1024 + (s[i + 1] - 56320))
    ELSE IF IsLowSurrogate(s[i]) /\ i > 1 /\ IsHighSurrogate(s[i - 1])
       THEN <<>>
    ELSE IF IsHighSurrogate(s[i]) \/ IsLowSurrogate(s[i])
       THEN <<239, 191, 189>>
    ELSE Utf8OfCodePoint(s[i])

RECURSIVE Utf8OfRange(_, _, _)
Utf8OfRange(s, lo, hi) ==
    IF lo > hi THEN <<>>
    ELSE IF lo = hi THEN Utf8OfUnit(s, lo)
    ELSE LET mid == (lo + hi) \div 2
         IN  Utf8OfRange(s, lo, mid) \o Utf8OfRange(s, mid + 1, hi)

BufferFrom(s) == Utf8OfRange(s, 1, Len(s))

\* buf.writeUInt32LE(n, 0) on Buffer.alloc(4)
WriteUInt32LE(n) ==
    <<n % 256, (n \div 256) % 256, (n \div 65536) % 256, (n \div 16777216) % 256>>

\* buf.writeUInt16LE(v, 0) on Buffer.alloc(2), for v an unsigned 16-bit integer
WriteUInt16LE(v) == <<v % 256, (v \div 256) % 256>>

\* Buffer.from(metadata.name.slice(0, 32)) and its length prefix
EncodeField(str, limit) ==
    LET buf == BufferFrom(Slice(str, limit))
    IN  WriteUInt32LE(Len(buf)) \o buf

\* metadata.sellerFeeBasisPoints || 0
SellerFeeClamped(md) == IF md.fee.present THEN Min(md.fee.value, 10000) ELSE 0
SellerFeeOf(md) == IF md.fee.present THEN md.fee.value ELSE 0

\* isMutable (bool) - true (1)
IsMutableByteFromPayload(md) == IF md.mutable THEN 1 ELSE 0
IsMutableByte(md) == 1

\* Creators, Collection, Uses: Option - None (0)
OptionMarkersWithCreators(md) == IF md.creators > 0 THEN <<1, 0, 0>> ELSE <<0, 0, 0>>
OptionMarkers(md) == <<0, 0, 0>>

NotEncoded == [status |-> "none", bytes |-> <<>>]

\* Buffer.concat(buffers) of serializeMetadataData. writeUInt16LE is defined
\* for unsigned 16-bit integers only; for any other value the Buffer in use
\* either throws a RangeError or keeps the low 16 bits (`wraps`).
SerializeMetadataData(md, wraps) ==
    LET fee == SellerFeeOf(md)
        inRange == fee >= 0 /\ fee <= 65535
    IN  IF ~inRange /\ ~wraps
           THEN [status |-> "RangeError", bytes |-> <<>>]
           ELSE [status |-> "ok",
                 bytes |-> <<CREATE_METADATA_V3_DISCRIMINATOR>>
                           \o EncodeField(md.name, NameLimit)
                           \o EncodeField(md.symbol, SymbolLimit)
                           \o EncodeField(md.uri, UriLimit)
                           \o WriteUInt16LE(fee % 65536)
                           \o OptionMarkers(md)
                           \o <<IsMutableByte(md)>>
                           \o <<0>>]

\* Payloads the encoder is applied to.
MyToken == <<77, 121, 32, 84, 111, 107, 101, 110>>
MTK == <<77, 84, 75>>
HttpsX == <<104, 116, 116, 112, 115, 58, 47, 47, 120>>
\* U+1F600 as a surrogate pair
Emoji(n) == [i \in 1..(2 * n) |-> IF i % 2 = 1 THEN 55357 ELSE 56832]
Names == {<<>>, MyToken, Rep(65, 32), Rep(65, 33), Rep(65, 40), Rep(233, 20),
          Rep(8364, 11), Emoji(17), <<65>> \o Emoji(16)}
Symbols == {MTK, Rep(66, 10), Rep(66, 11), Rep(233, 6)}
Uris == {HttpsX, Rep(67, 200), Rep(67, 201), Rep(233, 101)}
Fees == {[present |-> FALSE, value |-> 0]}
           \cup {[present |-> TRUE, value |-> v] : v \in {0, 500, 10000, 10001, 65535, 65536, 70000, -1}}
Payloads == [name : Names, symbol : Symbols, uri : Uris, fee : Fees,
             mutable : BOOLEAN, creators : {0, 1}]
\* new PublicKey('metaqbxxUerdq28cj1RbAWkYQm3ybzjb6a8bt518x1s')
METADATA_PROGRAM_ID == "metaqbxxUerdq28cj1RbAWkYQm3ybzjb6a8bt518x1s"
Mints == {"mintA", "mintB"}

\* PublicKey.findProgramAddressSync([Buffer.from('metadata'), METADATA_PROGRAM_ID.toBuffer(),
\* mint.toBuffer()], METADATA_PROGRAM_ID): the address is a hash of the seeds
\* and the program id, kept here as the pair it is computed from.
GetMetadataPDAPerCall(mint) ==
    [program |-> METADATA_PROGRAM_ID, seeds |-> <<"metadata", METADATA_PROGRAM_ID, mint>>,
     nonce |-> encCalls]
GetMetadataPDA(mint) ==
    [program |-> METADATA_PROGRAM_ID, seeds |-> <<"metadata", METADATA_PROGRAM_ID, mint>>,
     nonce |-> 0]

NoPda == [mint |-> "none", address |-> GetMetadataPDA("none")]
NoPayload == [name |-> <<>>, symbol |-> <<>>, uri |-> <<>>,
              fee |-> [present |-> FALSE, value |-> 0], mutable |-> TRUE, creators |-> 0]

\* ------------------------------------------------------------------ state
\* The component before any submission, apart from the position of control.
Mounted ==
    /\ encoded = NotEncoded
    /\ encCalls = 0
    /\ pda = NoPda
    /\ again = [encoded |-> NotEncoded, address |-> NoPda.address]
    /\ tokenType = "spl"
    /\ hasImage = FALSE
    /\ textLatin1 = TRUE
    /\ pinataConfigured = FALSE
    /\ instructions = <<>>
    /\ metadataURI = "none"
    /\ uploadThrew = FALSE
    /\ txReady = FALSE
    /\ txSigned = {}
    /\ pastKeys = {}
    /\ txs = {}
    /\ mintAuthority = "none"
    /\ returned = NoResult
    /\ tokenRecord = NoToken
    /\ network = "devnet"
    /\ inFlight = 0
    /\ formData = EmptyForm
    /\ keyFits = FALSE
    /\ fitsSeen = 0
    /\ fetched = 0
    /\ submitted = {}
    /\ runs = 0
    /\ wallet = "none"
    /\ formOk = FALSE
    /\ initialSupply = 0
    /\ loading = FALSE
    /\ attempts = 0
    /\ flashPayer = 0
    /\ ephBalance = 0
    /\ spent = 0
    /\ fundConfirmed = FALSE
    /\ mintDone = FALSE
    /\ mintToDone = FALSE
    /\ remainingBalance = -1
    /\ refundAmount = -1
    /\ refundStep = "none"
    /\ emBalance = -1
    /\ emRefundAmount = -1
    /\ unconfirmed = {}
    /\ error = NoError
    /\ refundError = NoError
    /\ logged = {}
    /\ surfaced = NoError
    /\ toast = "none"
    /\ result = "none"
    /\ created = 0
    /\ calls = NoCalls

\* Nothing was submitted to the parsing step and the registry's item is absent.
Unused ==
    /\ form = DefaultForm
    /\ parsed = NotParsed
    /\ stored = NoItem
    /\ tokens = InitialTokens(stored)

Init ==
    /\ pc = "idle"
    /\ metadata = NoPayload
    /\ wrapsOnOverflow = FALSE
    /\ Unused
    /\ Mounted

\* ---------------------------------------------------------- NetworkSelector
\* <Select onValueChange={(v) => onNetworkChange(v as NetworkType)}>, with
\* onNetworkChange = setNetwork of AppContent; between issuances.
SelectNetwork ==
    /\ pc = "idle"
    /\ \E n \in Networks : network' = n
    /\ UNCHANGED <<pc, formVars, regVars, encVars, keyVars, freshVars, splVars, pastKeys, obsVars, runs, inputVars,
                   attempts, flashPayer, ledgerVars, opVars, refundVars, emVars, unconfirmed,
                   errVars, uiVars, calls>>

\* ----------------------------------------------------------- handleSubmit
\* The pre-checks of handleSubmit, setLoading(true) and the call of
\* createLightToken; the locals of the previous submission are gone.
HandleSubmit ==
    /\ SubmitEnabled(loading)
    /\ runs < MaxRuns
    /\ \E w \in Wallets, f \in BOOLEAN, s \in Supplies, t \in TokenTypes :
          /\ wallet' = w
          /\ formOk' = f
          /\ initialSupply' = s
          /\ tokenType' = t
          /\ IF ~PrecheckPasses(w, f)
                THEN /\ pc' = pc
                     /\ loading' = loading
                     /\ inFlight' = inFlight
                ELSE /\ pc' = IF t = "spl" THEN "spl_entry" ELSE "cl_entry"
                     /\ loading' = TRUE
                     /\ inFlight' = inFlight + 1
    /\ \E img \in BOOLEAN, latin \in BOOLEAN, pin \in BOOLEAN :
          /\ MetadataInputsRead(tokenType') \/ (~img /\ latin /\ ~pin)
          /\ hasImage' = img
          /\ textLatin1' = latin
          /\ pinataConfigured' = pin
    /\ pastKeys' = pastKeys \cup ({flashPayer} \ {0})
    /\ instructions' = <<>>
    /\ metadataURI' = "none"
    /\ uploadThrew' = FALSE
    /\ txReady' = FALSE
    /\ txSigned' = {}
    /\ txs' = {}
    /\ mintAuthority' = "none"
    /\ returned' = NoResult
    /\ tokenRecord' = NoToken
    /\ formData' = FormFields(formOk', initialSupply', hasImage')
    /\ keyFits' = FALSE
    /\ fitsSeen' = 0
    /\ fetched' = 0
    /\ submitted' = {}
    /\ runs' = runs + 1
    /\ attempts' = 0
    /\ flashPayer' = 0
    /\ ephBalance' = 0
    /\ spent' = 0
    /\ fundConfirmed' = FALSE
    /\ mintDone' = FALSE
    /\ mintToDone' = FALSE
    /\ remainingBalance' = -1
    /\ refundAmount' = -1
    /\ refundStep' = "none"
    /\ emBalance' = -1
    /\ emRefundAmount' = -1
    /\ unconfirmed' = {}
    /\ error' = NoError
    /\ refundError' = NoError
    /\ logged' = {}
    /\ surfaced' = NoError
    /\ toast' = "none"
    /\ result' = "none"
    /\ created' = 0
    /\ calls' = NoCalls
    /\ UNCHANGED <<encVars, appVars>>

\* if (!publicKey || !signTransaction) throw, before the try block
CLEntry ==
    /\ pc = "cl_entry"
    /\ IF wallet = "nosign"
          THEN /\ surfaced' = Err("entry", "WalletNotConnected")
               /\ result' = "error"
               /\ pc' = "hs_catch"
          ELSE /\ pc' = "keygen"
               /\ UNCHANGED <<surfaced, result>>
    /\ UNCHANGED <<encVars, appVars, keyVars, freshVars, splVars, pastKeys, obsVars, runs, inputVars, loading, inFlight, attempts, flashPayer, ledgerVars, opVars,
                   refundVars, emVars, unconfirmed, error, refundError, logged, toast,
                   created, calls>>

\* ---------------------------------------------- generateCompressedKeypair
\* One iteration of the while loop: attempts++, Keypair.generate(), the
\* field-membership predicate; the first success is returned to Step 1.
\* `attempts` counts the iterations whose key failed the predicate; it is a
\* local of the call and is gone once the call has returned a key pair.
KeygenAttempt ==
    /\ pc = "keygen"
    /\ KeygenMayAttempt(attempts)
    /\ \E fits \in BOOLEAN :
          /\ fitsSeen' = IF fits THEN fitsSeen + 1 ELSE fitsSeen
          /\ IF KeygenAccepts(fits)
             THEN /\ flashPayer' = FreshKey(pastKeys)
                  /\ keyFits' = fits
                  /\ attempts' = 0
                  /\ pc' = "fund_blockhash"
             ELSE /\ attempts' = attempts + 1
                  /\ UNCHANGED <<flashPayer, keyFits, pc>>
    /\ UNCHANGED <<encVars, appVars, freshVars, splVars, pastKeys, obsVars, runs, inputVars, ledgerVars, opVars, refundVars, emVars, unconfirmed,
                   errVars, uiVars, calls>>

\* The loop ends without a success: throw new Error('Failed to generate ...')
KeygenExhausted ==
    /\ pc = "keygen"
    /\ ~KeygenMayAttempt(attempts)
    /\ Throw("keygen", "ConstraintExhausted")
    /\ UNCHANGED <<encVars, appVars, keyVars, freshVars, splVars, pastKeys, obsVars, runs, inputVars, attempts, flashPayer, ledgerVars, opVars, refundVars,
                   emVars, unconfirmed, refundError, logged, surfaced, uiVars, calls>>

\* ------------------------------------------------------- Step 2: funding
FundGetBlockhash ==
    /\ pc = "fund_blockhash"
    /\ \E ok \in BOOLEAN :
          IF ok THEN fetched' = FetchBlockhash(fetched) /\ pc' = "fund_sign" /\ error' = error
                ELSE fetched' = fetched /\ Throw("fund_blockhash", "BlockhashFailure")
    /\ UNCHANGED <<encVars, appVars, keyVars, submitted, splVars, pastKeys, obsVars, runs, inputVars, attempts, flashPayer, ledgerVars, opVars, refundVars,
                   emVars, unconfirmed, refundError, logged, surfaced, uiVars, calls>>

\* await signTransaction(fundTransaction)
FundSign ==
    /\ pc = "fund_sign"
    /\ calls' = Called("sign")
    /\ \/ pc' = "fund_send" /\ error' = error
       \/ \E k \in {"SigningDeclined", "NonErrorRejection"} : Throw("fund_sign", k)
    /\ UNCHANGED <<encVars, appVars, keyVars, freshVars, splVars, pastKeys, obsVars, runs, inputVars, attempts, flashPayer, ledgerVars, opVars, refundVars,
                   emVars, unconfirmed, refundError, logged, surfaced, uiVars>>

\* await connection.sendRawTransaction(fundRawTx, ...)
FundSend ==
    /\ pc = "fund_send"
    /\ calls' = Called("fundSend")
    /\ \/ /\ unconfirmed' = unconfirmed \cup {"fund"}
          /\ pc' = "fund_confirm"
          /\ error' = error
       \/ /\ Throw("fund_send", "SubmissionFailure")
          /\ unconfirmed' = unconfirmed
    /\ txs' = txs \cup {FundTx}
    /\ submitted' = submitted \cup {Submission("fund", fetched)}
    /\ UNCHANGED <<encVars, appVars, keyVars, fetched, splVars, pastKeys, mintAuthority, returned, tokenRecord, formData, runs, inputVars, attempts, flashPayer, ledgerVars, opVars, refundVars,
                   emVars, refundError, logged, surfaced, uiVars>>

\* await connection.confirmTransaction({signature: fundSignature, ...})
FundConfirm ==
    /\ pc = "fund_confirm"
    /\ calls' = Called("fundConfirm")
    /\ unconfirmed' = unconfirmed \ {"fund"}
    /\ \/ /\ ephBalance' = ephBalance + fundAmount
          /\ fundConfirmed' = TRUE
          /\ pc' = "create_mint"
          /\ error' = error
       \/ /\ \E landed \in BOOLEAN :
                ephBalance' = IF landed THEN ephBalance + fundAmount ELSE ephBalance
          /\ fundConfirmed' = fundConfirmed
          /\ Throw("fund_confirm", "Expired")
    /\ UNCHANGED <<encVars, appVars, keyVars, freshVars, splVars, pastKeys, obsVars, runs, inputVars, attempts, flashPayer, spent, mintDone, mintToDone,
                   refundVars, emVars, refundError, logged, surfaced, uiVars>>

\* ------------------------------------------------- Steps 3 and 4: operate
\* await createCompressedMint(rpc, flashPayer, flashPayer.publicKey, ...)
CreateMint ==
    /\ pc = "create_mint"
    /\ calls' = Called("createMint")
    /\ \/ \E c \in OperateCosts :
             /\ c <= ephBalance
             /\ ephBalance' = ephBalance - c
             /\ spent' = spent + c
             /\ mintDone' = TRUE
             /\ mintAuthority' = CreateMintCall.authority
             /\ pc' = AfterCreateMint(initialSupply)
             /\ error' = error
       \/ \E c \in FailureDebits :
             /\ ephBalance' = ephBalance - c
             /\ spent' = spent + c
             /\ mintDone' = mintDone
             /\ mintAuthority' = mintAuthority
             /\ Throw("create_mint", "CreateMintFailure")
    /\ txs' = txs \cup {CreateMintCall}
    /\ UNCHANGED <<encVars, appVars, keyVars, freshVars, splVars, pastKeys, returned, tokenRecord, formData, runs, inputVars, attempts, flashPayer, fundConfirmed, mintToDone,
                   refundVars, emVars, unconfirmed, refundError, logged, surfaced, uiVars>>

\* await mintToCompressed(rpc, flashPayer, mint, publicKey, flashPayer, amount)
MintTo ==
    /\ pc = "mint_to"
    /\ calls' = Called("mintTo")
    /\ \/ \E c \in OperateCosts :
             /\ c <= ephBalance
             /\ ephBalance' = ephBalance - c
             /\ spent' = spent + c
             /\ mintToDone' = TRUE
             /\ pc' = "refund_balance"
             /\ error' = error
       \/ \E c \in FailureDebits :
             /\ ephBalance' = ephBalance - c
             /\ spent' = spent + c
             /\ mintToDone' = mintToDone
             /\ Throw("mint_to", "MintToFailure")
    /\ txs' = txs \cup {MintToCall}
    /\ UNCHANGED <<encVars, appVars, keyVars, freshVars, splVars, pastKeys, mintAuthority, returned, tokenRecord, formData, runs, inputVars, attempts, flashPayer, fundConfirmed, mintDone,
                   refundVars, emVars, unconfirmed, refundError, logged, surfaced, uiVars>>

\* -------------------------------------------------------- Step 5: refund
\* const remainingBalance = await connection.getBalance(...) and the guard
RefundGetBalance ==
    /\ pc = "refund_balance"
    /\ calls' = Called("balanceQuery")
    /\ \/ /\ remainingBalance' = GetBalance
          /\ IF ShouldRefund(GetBalance)
                THEN /\ refundAmount' = RefundAmountOf(GetBalance)
                     /\ refundStep' = refundStep
                     /\ pc' = "refund_blockhash"
                ELSE /\ refundAmount' = refundAmount
                     /\ refundStep' = "skipped"
                     /\ pc' = "return"
          /\ error' = error
       \/ /\ Throw("refund_balance", "BalanceQueryFailure")
          /\ UNCHANGED refundVars
    /\ UNCHANGED <<encVars, appVars, keyVars, freshVars, splVars, pastKeys, obsVars, runs, inputVars, attempts, flashPayer, ledgerVars, opVars, emVars,
                   unconfirmed, refundError, logged, surfaced, uiVars>>

RefundGetBlockhash ==
    /\ pc = "refund_blockhash"
    /\ \E ok \in BOOLEAN :
          IF ok THEN fetched' = FetchBlockhash(fetched) /\ pc' = "refund_send" /\ error' = error
                ELSE fetched' = fetched /\ Throw("refund_blockhash", "BlockhashFailure")
    /\ UNCHANGED <<encVars, appVars, keyVars, submitted, splVars, pastKeys, obsVars, runs, inputVars, attempts, flashPayer, ledgerVars, opVars, refundVars,
                   emVars, unconfirmed, refundError, logged, surfaced, uiVars, calls>>

\* refundTx.sign(flashPayer); await connection.sendRawTransaction(...)
RefundSend ==
    /\ pc = "refund_send"
    /\ calls' = Called("refundSend")
    /\ \/ /\ unconfirmed' = unconfirmed \cup {"refund"}
          /\ pc' = "refund_confirm"
          /\ error' = error
       \/ /\ Throw("refund_send", "SubmissionFailure")
          /\ unconfirmed' = unconfirmed
    /\ txs' = txs \cup {RefundTx("refund", refundAmount)}
    /\ submitted' = submitted \cup {Submission("refund", fetched)}
    /\ UNCHANGED <<encVars, appVars, keyVars, fetched, splVars, pastKeys, mintAuthority, returned, tokenRecord, formData, runs, inputVars, attempts, flashPayer, ledgerVars, opVars, refundVars,
                   emVars, refundError, logged, surfaced, uiVars>>

\* await connection.confirmTransaction({signature: refundSig, ...})
RefundConfirm ==
    /\ pc = "refund_confirm"
    /\ calls' = Called("refundConfirm")
    /\ unconfirmed' = unconfirmed \ {"refund"}
    /\ \/ \E fee \in RefundFees :
             /\ refundAmount + fee <= ephBalance
             /\ ephBalance' = ephBalance - refundAmount - fee
             /\ refundStep' = "transferred"
             /\ pc' = "return"
             /\ error' = error
       \/ /\ \/ ephBalance' = ephBalance
             \/ \E fee \in RefundFees :
                   /\ refundAmount + fee <= ephBalance
                   /\ ephBalance' = ephBalance - refundAmount - fee
          /\ refundStep' = refundStep
          /\ Throw("refund_confirm", "Expired")
    /\ UNCHANGED <<encVars, appVars, keyVars, freshVars, splVars, pastKeys, obsVars, runs, inputVars, attempts, flashPayer, spent, opVars, remainingBalance,
                   refundAmount, emVars, refundError, logged, surfaced, uiVars>>

\* return { mint, signature } to handleSubmit
Return ==
    /\ pc = "return"
    /\ result' = "success"
    /\ pc' = "hs_success"
    /\ returned' = LightResult(initialSupply)
    /\ UNCHANGED <<encVars, appVars, keyVars, freshVars, splVars, pastKeys, txs, mintAuthority, tokenRecord, formData, runs, inputVars, loading, inFlight, attempts, flashPayer, ledgerVars, opVars,
                   refundVars, emVars, unconfirmed, errVars, toast, created, calls>>

\* ------------------------------------------- catch: emergency refund
\* catch (error) { console.error('Error:', error); if (flashPayer) ...
Catch ==
    /\ pc = "catch"
    /\ logged' = logged \cup {error}
    /\ pc' = IF CompensationEnabled(flashPayer) THEN "em_balance" ELSE "throw"
    /\ UNCHANGED <<encVars, appVars, keyVars, freshVars, splVars, pastKeys, obsVars, runs, inputVars, attempts, flashPayer, ledgerVars, opVars, refundVars,
                   emVars, unconfirmed, error, refundError, surfaced, uiVars, calls>>

\* A throw of `kind` at `step` inside the inner try: caught, logged, and
\* control falls through to `throw error`.
RefundThrow(step, kind) ==
    /\ refundError' = Err(step, kind)
    /\ logged' = LogRefundError(logged, Err(step, kind))
    /\ pc' = "throw"

\* const balance = await connection.getBalance(...); if (balance > 5000)
EmGetBalance ==
    /\ pc = "em_balance"
    /\ calls' = Called("compQuery")
    /\ \/ /\ emBalance' = GetBalance
          /\ IF ShouldEmergencyRefund(GetBalance)
                THEN /\ emRefundAmount' = EmergencyRefundAmountOf(GetBalance)
                     /\ pc' = "em_blockhash"
                ELSE /\ emRefundAmount' = emRefundAmount
                     /\ pc' = "throw"
          /\ UNCHANGED <<refundError, logged>>
       \/ /\ RefundThrow("em_balance", "BalanceQueryFailure")
          /\ UNCHANGED emVars
    /\ UNCHANGED <<encVars, appVars, keyVars, freshVars, splVars, pastKeys, obsVars, runs, inputVars, attempts, flashPayer, ledgerVars, opVars, refundVars,
                   unconfirmed, error, surfaced, uiVars>>

EmGetBlockhash ==
    /\ pc = "em_blockhash"
    /\ \E ok \in BOOLEAN :
          IF ok THEN fetched' = FetchBlockhash(fetched) /\ pc' = "em_send" /\ UNCHANGED <<refundError, logged>>
                ELSE fetched' = fetched /\ RefundThrow("em_blockhash", "BlockhashFailure")
    /\ UNCHANGED <<encVars, appVars, keyVars, submitted, splVars, pastKeys, obsVars, runs, inputVars, attempts, flashPayer, ledgerVars, opVars, refundVars,
                   emVars, unconfirmed, error, surfaced, uiVars, calls>>

\* emergencyRefundTx.sign(flashPayer); await connection.sendRawTransaction(...);
\* the catch block goes on to `throw error` without confirmTransaction, so
\* the transfer lands, or not, after the saga has left it behind.
EmSend ==
    /\ pc = "em_send"
    /\ calls' = Called("compSend")
    /\ \/ /\ unconfirmed' = unconfirmed \cup {"emergency"}
          /\ \/ ephBalance' = ephBalance
             \/ \E fee \in RefundFees :
                   /\ emRefundAmount + fee <= ephBalance
                   /\ ephBalance' = ephBalance - emRefundAmount - fee
          /\ pc' = "throw"
          /\ UNCHANGED <<refundError, logged>>
       \/ /\ RefundThrow("em_send", "SubmissionFailure")
          /\ UNCHANGED <<unconfirmed, ephBalance>>
    /\ txs' = txs \cup {RefundTx("emergency", emRefundAmount)}
    /\ submitted' = submitted \cup {Submission("emergency", fetched)}
    /\ UNCHANGED <<encVars, appVars, keyVars, fetched, splVars, pastKeys, mintAuthority, returned, tokenRecord, formData, runs, inputVars, attempts, flashPayer, spent, opVars, refundVars,
                   emVars, error, surfaced, uiVars>>

\* throw error
ThrowError ==
    /\ pc = "throw"
    /\ surfaced' = Rethrown(error, refundError)
    /\ result' = "error"
    /\ pc' = "hs_catch"
    /\ UNCHANGED <<encVars, appVars, keyVars, freshVars, splVars, pastKeys, obsVars, runs, inputVars, loading, inFlight, attempts, flashPayer, ledgerVars, opVars,
                   refundVars, emVars, unconfirmed, error, refundError, logged, toast,
                   created, calls>>

\* ------------------------------------------------------ createSPLToken
\* Where the metadata step starts: if (formData.image) { if (isPinataConfigured()) ... }
AfterMintInstructionsWithoutImage(img, pin) == IF pin THEN "spl_upload" ELSE "spl_fallback"
AfterMintInstructions(img, pin) ==
    IF ~img THEN "spl_supply" ELSE IF pin THEN "spl_upload" ELSE "spl_fallback"

\* btoa(s) throws InvalidCharacterError when s has a character above U+00FF;
\* JSON.stringify leaves such characters of name, symbol and description as they are.
BtoaEncodes(latin1) == latin1

\* transaction.add(SystemProgram.createAccount(...));
\* transaction.add(createInitializeMintInstruction(...))
MintInstructions == <<"createAccount", "initializeMint">>

\* transaction.add(createAssociatedTokenAccountInstruction(...));
\* transaction.add(createMintToInstruction(...))
SupplyInstructionsMintToFirst == <<"mintTo", "createAssociatedTokenAccount">>
SupplyInstructions == <<"createAssociatedTokenAccount", "mintTo">>

\* { mint: mintKeypair.publicKey.toString(), signature }
SplResult == [mint |-> "splMint", signature |-> "splSignature"]

\* The tokens handleSubmit can hand to onTokenCreated.
CreatedTokens ==
    {TokenRecord(SplResult, "spl", n, s) : n \in Networks, s \in Supplies}
       \cup {TokenRecord(LightResult(s), "light", n, s) : n \in Networks, s \in Supplies}

\* A throw of `kind` by the statement at `step`, inside createSPLToken's try block.
SplOnFailureResend(step) == IF step = "spl_confirm" THEN "spl_send" ELSE "spl_catch"
SplOnFailure(step) == "spl_catch"
SplThrow(step, kind) ==
    /\ error' = Err(step, kind)
    /\ pc' = SplOnFailure(step)

\* transaction.partialSign(mintKeypair): the signatures on the transaction
\* before the wallet is asked.
NoPartialSigners == {}
PartialSigners == {"mint"}

\* transaction.recentBlockhash = blockhash; transaction.feePayer = publicKey
SplFeePayer == "user"

\* if (!publicKey) throw ...; try { const mintKeypair = Keypair.generate(); ...
\* handleSubmit has returned already when publicKey is null.
SplEntry ==
    /\ pc = "spl_entry"
    /\ pc' = "spl_rent"
    /\ UNCHANGED <<encVars, appVars, keyVars, freshVars, splVars, pastKeys, obsVars, runs, inputVars, attempts, flashPayer,
                   ledgerVars, opVars, refundVars, emVars, unconfirmed, errVars, uiVars, calls>>

\* const lamports = await getMinimumBalanceForRentExemptMint(connection);
\* transaction.add(createAccount); transaction.add(createInitializeMintInstruction)
SplRent ==
    /\ pc = "spl_rent"
    /\ \/ /\ instructions' = MintInstructions
          /\ pc' = AfterMintInstructions(hasImage, pinataConfigured)
          /\ error' = error
       \/ /\ instructions' = instructions
          /\ SplThrow("spl_rent", "RpcFailure")
    /\ UNCHANGED <<encVars, appVars, keyVars, freshVars, metadataURI, uploadThrew, txReady, txSigned, pastKeys, obsVars, runs,
                   inputVars, attempts, flashPayer, ledgerVars, opVars, refundVars, emVars,
                   unconfirmed, refundError, logged, surfaced, uiVars, calls>>

\* try { metadataURI = await uploadMetadataToPinata({...}) }
\* catch (error) { console.error(...); toast.error(...); <fallback> }
SplUpload ==
    /\ pc = "spl_upload"
    /\ \/ /\ metadataURI' = "pinned"
          /\ pc' = "spl_metadata"
          /\ UNCHANGED <<uploadThrew, logged>>
       \/ /\ uploadThrew' = TRUE
          /\ logged' = logged \cup {Err("spl_upload", "UploadFailure")}
          /\ pc' = "spl_fallback"
          /\ UNCHANGED metadataURI
    /\ UNCHANGED <<encVars, appVars, keyVars, freshVars, instructions, txReady, txSigned, pastKeys, obsVars, runs, inputVars,
                   attempts, flashPayer, ledgerVars, opVars, refundVars, emVars, unconfirmed,
                   error, refundError, surfaced, uiVars, calls>>

\* metadataURI = `data:application/json;base64,${btoa(JSON.stringify(metadataJSON))}`
\* in the inner catch and in the branch taken when Pinata is not configured.
SplFallback ==
    /\ pc = "spl_fallback"
    /\ IF BtoaEncodes(textLatin1)
          THEN /\ metadataURI' = "fallback"
               /\ pc' = "spl_metadata"
               /\ error' = error
          ELSE /\ metadataURI' = metadataURI
               /\ SplThrow("spl_fallback", "InvalidCharacterError")
    /\ UNCHANGED <<encVars, appVars, keyVars, freshVars, instructions, uploadThrew, txReady, txSigned, pastKeys, obsVars,
                   runs, inputVars, attempts, flashPayer, ledgerVars, opVars, refundVars,
                   emVars, unconfirmed, refundError, logged, surfaced, uiVars, calls>>

\* if (metadataURI) { transaction.add(createTokenMetadataInstruction(...)) }
SplMetadata ==
    /\ pc = "spl_metadata"
    /\ instructions' = IF metadataURI # "none"
                          THEN Append(instructions, "createMetadata")
                          ELSE instructions
    /\ pc' = "spl_supply"
    /\ UNCHANGED <<encVars, appVars, keyVars, freshVars, metadataURI, uploadThrew, txReady, txSigned, pastKeys, obsVars, runs,
                   inputVars, attempts, flashPayer, ledgerVars, opVars, refundVars, emVars,
                   unconfirmed, errVars, uiVars, calls>>

\* if (initialSupply > 0) { ata = await getAssociatedTokenAddress(...);
\*   transaction.add(createAssociatedTokenAccountInstruction); transaction.add(createMintToInstruction) }
SplSupply ==
    /\ pc = "spl_supply"
    /\ instructions' = IF initialSupply > 0
                          THEN instructions \o SupplyInstructions
                          ELSE instructions
    /\ pc' = "spl_blockhash"
    /\ UNCHANGED <<encVars, appVars, keyVars, freshVars, metadataURI, uploadThrew, txReady, txSigned, pastKeys, obsVars, runs,
                   inputVars, attempts, flashPayer, ledgerVars, opVars, refundVars, emVars,
                   unconfirmed, errVars, uiVars, calls>>

\* const { blockhash, lastValidBlockHeight } = await connection.getLatestBlockhash('confirmed');
\* transaction.recentBlockhash = blockhash; transaction.feePayer = publicKey
SplGetBlockhash ==
    /\ pc = "spl_blockhash"
    /\ \/ /\ txReady' = TRUE
          /\ fetched' = FetchBlockhash(fetched)
          /\ pc' = "spl_partial_sign"
          /\ error' = error
       \/ /\ txReady' = txReady
          /\ fetched' = fetched
          /\ SplThrow("spl_blockhash", "RpcFailure")
    /\ UNCHANGED <<encVars, appVars, keyVars, submitted, instructions, metadataURI, uploadThrew, txSigned, pastKeys, obsVars,
                   runs, inputVars, attempts, flashPayer, ledgerVars, opVars, refundVars,
                   emVars, unconfirmed, refundError, logged, surfaced, uiVars, calls>>

\* transaction.partialSign(mintKeypair);
\* if (!signTransaction) throw new Error('Wallet does not support signing transactions')
SplPartialSign ==
    /\ pc = "spl_partial_sign"
    /\ txSigned' = txSigned \cup PartialSigners
    /\ IF wallet = "nosign"
          THEN SplThrow("spl_partial_sign", "SigningUnsupported")
          ELSE pc' = "spl_sign" /\ error' = error
    /\ UNCHANGED <<encVars, appVars, keyVars, freshVars, instructions, metadataURI, uploadThrew, txReady, pastKeys, obsVars,
                   runs, inputVars, attempts, flashPayer, ledgerVars, opVars, refundVars,
                   emVars, unconfirmed, refundError, logged, surfaced, uiVars, calls>>

\* const signedTransaction = await signTransaction(transaction)
SplSign ==
    /\ pc = "spl_sign"
    /\ calls' = Called("sign")
    /\ \/ /\ txSigned' = txSigned \cup {"user"}
          /\ pc' = "spl_send"
          /\ error' = error
       \/ /\ txSigned' = txSigned
          /\ \E kind \in {"SigningDeclined", "NonErrorRejection"} : SplThrow("spl_sign", kind)
    /\ UNCHANGED <<encVars, appVars, keyVars, freshVars, instructions, metadataURI, uploadThrew, txReady, pastKeys, obsVars,
                   runs, inputVars, attempts, flashPayer, ledgerVars, opVars, refundVars,
                   emVars, unconfirmed, refundError, logged, surfaced, uiVars>>

\* const signature = await connection.sendRawTransaction(rawTransaction, {...})
SplSend ==
    /\ pc = "spl_send"
    /\ calls' = Called("splSend")
    /\ \/ /\ txs' = txs \cup {Tx("spl", "user", "mint", 0, SplFeePayer, txSigned, SplMintAuthority)}
          /\ pc' = "spl_confirm"
          /\ error' = error
       \/ /\ txs' = txs
          /\ SplThrow("spl_send", "SubmissionRejected")
    /\ submitted' = submitted \cup {Submission("spl", fetched)}
    /\ UNCHANGED <<encVars, appVars, keyVars, fetched, splVars, pastKeys, mintAuthority, returned, tokenRecord, formData, runs,
                   inputVars, attempts, flashPayer, ledgerVars, opVars, refundVars, emVars,
                   unconfirmed, refundError, logged, surfaced, uiVars>>

\* await connection.confirmTransaction({signature, blockhash, lastValidBlockHeight}, 'confirmed')
SplConfirm ==
    /\ pc = "spl_confirm"
    /\ calls' = Called("splConfirm")
    /\ \/ /\ mintAuthority' = SplMintAuthority
          /\ pc' = "spl_return"
          /\ error' = error
       \/ /\ mintAuthority' = mintAuthority
          /\ SplThrow("spl_confirm", "ConfirmationFailure")
    /\ UNCHANGED <<encVars, appVars, keyVars, freshVars, splVars, pastKeys, txs, returned, tokenRecord, formData, runs, inputVars,
                   attempts, flashPayer, ledgerVars, opVars, refundVars, emVars, unconfirmed,
                   refundError, logged, surfaced, uiVars>>

\* return { mint: mintKeypair.publicKey.toString(), signature }
SplReturn ==
    /\ pc = "spl_return"
    /\ returned' = SplResult
    /\ result' = "success"
    /\ pc' = "hs_success"
    /\ UNCHANGED <<encVars, appVars, keyVars, freshVars, splVars, pastKeys, txs, mintAuthority, tokenRecord, formData, runs, inputVars,
                   loading, inFlight, attempts, flashPayer, ledgerVars, opVars, refundVars, emVars,
                   unconfirmed, errVars, toast, created, calls>>

\* catch (error) { console.error('Detailed error:', error); ...; throw error }
SplCatch ==
    /\ pc = "spl_catch"
    /\ logged' = logged \cup {error}
    /\ surfaced' = error
    /\ result' = "error"
    /\ pc' = "hs_catch"
    /\ UNCHANGED <<encVars, appVars, keyVars, freshVars, splVars, pastKeys, obsVars, runs, inputVars, loading, inFlight, attempts,
                   flashPayer, ledgerVars, opVars, refundVars, emVars, unconfirmed, error,
                   refundError, toast, created, calls>>

\* ------------------------------------------------ handleSubmit, continued
\* onTokenCreated(token); setFormData({...})
\* onTokenCreated(token) hands the token to handleTokenCreated, whose addToken acts on
\* the registry; the registry's own state is followed under RegSpec, whose AddToken
\* takes any token of CreatedTokens, the set tokenRecord stays in.
HSSuccess ==
    /\ pc = "hs_success"
    /\ created' = created + 1
    /\ pc' = "finally"
    /\ tokenRecord' = TokenRecord(returned, tokenType, network, initialSupply)
    /\ formData' = EmptyForm
    /\ UNCHANGED <<encVars, appVars, keyVars, freshVars, splVars, pastKeys, txs, mintAuthority, returned, runs, inputVars, loading, inFlight, attempts, flashPayer, ledgerVars, opVars,
                   refundVars, emVars, unconfirmed, errVars, toast, result, calls>>

\* catch (error) { console.error(...); toast.error(..., {description: errorMessage}) }
HSCatch ==
    /\ pc = "hs_catch"
    /\ logged' = logged \cup {surfaced}
    /\ toast' = ErrorMessage(surfaced)
    /\ pc' = "finally"
    /\ UNCHANGED <<encVars, appVars, keyVars, freshVars, splVars, pastKeys, obsVars, runs, inputVars, loading, inFlight, attempts, flashPayer, ledgerVars, opVars,
                   refundVars, emVars, unconfirmed, error, refundError, surfaced, result,
                   created, calls>>

\* finally { setLoading(false) }
Finally ==
    /\ pc = "finally"
    /\ loading' = FALSE
    /\ inFlight' = inFlight - 1
    /\ pc' = "idle"
    /\ UNCHANGED <<encVars, appVars, keyVars, freshVars, splVars, pastKeys, obsVars, runs, inputVars, attempts, flashPayer, ledgerVars, opVars, refundVars,
                   emVars, unconfirmed, errVars, toast, result, created, calls>>

Next ==
    \/ SelectNetwork
    \/ HandleSubmit
    \/ CLEntry
    \/ KeygenAttempt
    \/ KeygenExhausted
    \/ FundGetBlockhash
    \/ FundSign
    \/ FundSend
    \/ FundConfirm
    \/ CreateMint
    \/ MintTo
    \/ RefundGetBalance
    \/ RefundGetBlockhash
    \/ RefundSend
    \/ RefundConfirm
    \/ Return
    \/ Catch
    \/ EmGetBalance
    \/ EmGetBlockhash
    \/ EmSend
    \/ ThrowError
    \/ SplEntry
    \/ SplRent
    \/ SplUpload
    \/ SplFallback
    \/ SplMetadata
    \/ SplSupply
    \/ SplGetBlockhash
    \/ SplPartialSign
    \/ SplSign
    \/ SplSend
    \/ SplConfirm
    \/ SplReturn
    \/ SplCatch
    \/ HSCatch
    \/ HSSuccess
    \/ Finally

Spec == Init /\ [][Next]_vars

\* Every await of a running submission settles: the collaborator returns or fails.
Running == pc # "idle"
LiveSpec == Init /\ [][Next]_vars /\ WF_vars(Running /\ Next)

\* ------------------------------------------- the encoder on its own
EncInit ==
    /\ pc = "enc_call"
    /\ metadata \in Payloads
    /\ wrapsOnOverflow \in BOOLEAN
    /\ Unused
    /\ Mounted

\* createTokenMetadataInstruction: const metadataPDA = getMetadataPDA(mint);
\* const data = serializeMetadataData(metadata)
Encode ==
    /\ pc = "enc_call"
    /\ encoded' = SerializeMetadataData(metadata, wrapsOnOverflow)
    /\ \E m \in Mints : pda' = [mint |-> m, address |-> GetMetadataPDA(m)]
    /\ encCalls' = encCalls + 1
    /\ pc' = "enc_done"
    /\ UNCHANGED <<metadata, wrapsOnOverflow, again>>
    /\ UNCHANGED <<appVars, keyVars, freshVars, splVars, pastKeys, obsVars, runs, inputVars, loading, inFlight,
                   attempts, flashPayer, ledgerVars, opVars, refundVars, emVars, unconfirmed,
                   errVars, toast, result, created, calls>>

\* A call for another token in between; its instruction is not looked at.
EncodeOther ==
    /\ pc = "enc_done"
    /\ encCalls < MaxEncCalls
    /\ encCalls' = encCalls + 1
    /\ UNCHANGED <<pc, metadata, encoded, wrapsOnOverflow, pda, again>>
    /\ UNCHANGED <<appVars, keyVars, freshVars, splVars, pastKeys, obsVars, runs, inputVars, loading, inFlight,
                   attempts, flashPayer, ledgerVars, opVars, refundVars, emVars, unconfirmed,
                   errVars, toast, result, created, calls>>

\* The same two calls once more, with the same mint and the same metadata.
EncodeAgain ==
    /\ pc = "enc_done"
    /\ again' = [encoded |-> SerializeMetadataData(metadata, wrapsOnOverflow),
                 address |-> GetMetadataPDA(pda.mint)]
    /\ encCalls' = encCalls + 1
    /\ pc' = "enc_again"
    /\ UNCHANGED <<metadata, encoded, wrapsOnOverflow, pda>>
    /\ UNCHANGED <<appVars, keyVars, freshVars, splVars, pastKeys, obsVars, runs, inputVars, loading, inFlight,
                   attempts, flashPayer, ledgerVars, opVars, refundVars, emVars, unconfirmed,
                   errVars, toast, result, created, calls>>

EncNext ==
    \/ Encode
    \/ EncodeOther
    \/ EncodeAgain

EncSpec == EncInit /\ [][EncNext]_vars

\* What createSPLToken (lines 103-104, 226), createLightToken (lines 310-311, 397) and
\* handleSubmit's history entry (line 552) make of the decimals and supply fields.
FormInit ==
    /\ pc = "form_call"
    /\ form \in Forms
    /\ parsed = NotParsed
    /\ stored = NoItem
    /\ tokens = InitialTokens(stored)
    /\ metadata = NoPayload
    /\ wrapsOnOverflow = FALSE
    /\ Mounted

ParseForm ==
    /\ pc = "form_call"
    /\ parsed' = [path |-> form.type,
                  mintDecimals |-> ParseDecimals(form.decimals),
                  amount |-> ScaledAmount(ParseSupply(form.initialSupply),
                                          ParseDecimals(form.decimals)),
                  recorded |-> ParseDecimals(form.decimals)]
    /\ pc' = "form_done"
    /\ UNCHANGED <<form, network, regVars, encVars, keyVars, freshVars, splVars, pastKeys,
                   obsVars, runs, inputVars, attempts, flashPayer, ledgerVars, opVars,
                   refundVars, emVars, unconfirmed, errVars, uiVars, calls>>

FormNext == ParseForm

FormSpec == FormInit /\ [][FormNext]_vars

\* useTokenRegistry, mounted over whatever an earlier session left in localStorage.
RegInit ==
    /\ pc = "registry"
    /\ stored \in {NoItem} \cup {Item(Stringify(<<t>>)) : t \in CreatedTokens}
    /\ tokens = InitialTokens(stored)
    /\ form = DefaultForm
    /\ parsed = NotParsed
    /\ metadata = NoPayload
    /\ wrapsOnOverflow = FALSE
    /\ Mounted

\* addToken: setTokens(prev => { const updated = [...prev, token];
\* localStorage.setItem(STORAGE_KEY, JSON.stringify(updated)); return updated; })
AddToken ==
    /\ pc = "registry"
    /\ Len(tokens) < MaxTokens
    /\ \E token \in CreatedTokens :
          /\ tokens' = Updated(tokens, token)
          /\ stored' = Item(Stringify(tokens'))
    /\ UNCHANGED <<pc, network, formVars, encVars, keyVars, freshVars, splVars, pastKeys,
                   obsVars, runs, inputVars, attempts, flashPayer, ledgerVars, opVars,
                   refundVars, emVars, unconfirmed, errVars, uiVars, calls>>

\* clearTokens: setTokens([]); localStorage.removeItem(STORAGE_KEY)
ClearTokens ==
    /\ pc = "registry"
    /\ tokens' = <<>>
    /\ stored' = NoItem
    /\ UNCHANGED <<pc, network, formVars, encVars, keyVars, freshVars, splVars, pastKeys,
                   obsVars, runs, inputVars, attempts, flashPayer, ledgerVars, opVars,
                   refundVars, emVars, unconfirmed, errVars, uiVars, calls>>

\* A reload of the page: the hook's state is initialised from the item again.
Remount ==
    /\ pc = "registry"
    /\ tokens' = InitialTokens(stored)
    /\ UNCHANGED <<pc, stored, network, formVars, encVars, keyVars, freshVars, splVars,
                   pastKeys, obsVars, runs, inputVars, attempts, flashPayer, ledgerVars,
                   opVars, refundVars, emVars, unconfirmed, errVars, uiVars, calls>>

RegNext ==
    \/ AddToken
    \/ ClearTokens
    \/ Remount

RegSpec == RegInit /\ [][RegNext]_vars

\* ------------------------------------------------------------- properties

\* C1. Saga accounting: in a successful run with funding F = 5,000,000, operate
\* spend S and reserve R = 5,000, the balance query returning F - S, exactly
\* one refund transfer of F - S - R is issued when F - S > R and none when
\* F - S <= R; S = 2,500 gives a refund of 4,992,500.
SagaAccounting ==
    LET F == 5000000
        R == 5000
        left == F - spent
    IN  (result = "success" /\ remainingBalance = left) =>
           /\ calls.compSend = 0
           /\ IF left > R
                 THEN calls.refundSend = 1 /\ refundAmount = left - R
                 ELSE calls.refundSend = 0 /\ refundStep = "skipped"
           /\ (spent = 2500 => refundAmount = 4992500)
SagaAccountingWitness ==
    result = "success" /\ spent = 2500 /\ calls.refundSend = 1 /\ refundAmount = 4992500

\* C2. Failure compensation: when a step fails after the funding transfer was
\* confirmed, exactly one compensating attempt is made (one balance query and,
\* if the balance is above the reserve, one transfer of balance - reserve),
\* and it is made before the error is thrown to the caller.
FailureCompensation ==
    /\ calls.compQuery <= 1
    /\ calls.compSend <= 1
    /\ (fundConfirmed /\ surfaced # NoError) => calls.compQuery = 1
    /\ (fundConfirmed /\ calls.compSend = 1) =>
          emBalance > 5000 /\ emRefundAmount = emBalance - 5000
    /\ (fundConfirmed /\ surfaced # NoError /\ emBalance > 5000 /\ refundError = NoError) =>
          calls.compSend = 1
FailureCompensationWitness ==
    /\ fundConfirmed
    /\ error.step \in OperateSteps
    /\ surfaced = error
    /\ calls.compQuery = 1
    /\ calls.compSend = 1

\* C3 as claimed. When the funding step itself fails, no compensating attempt
\* occurs: no balance query on the ephemeral account and no refund transfer.
FundingFailureNoCompensation ==
    error.step \in FundingSteps => calls.compQuery = 0 /\ calls.compSend = 0

\* C3. When the funding step itself fails the compensating attempt still runs
\* once: one balance query, and a refund transfer only if the queried balance
\* exceeds the reserve, hence none when the funding transfer never reached
\* the ledger (blockhash fetch failed, signer declined, submission rejected).
FundingFailureCompensation ==
    error.step \in FundingSteps =>
       /\ surfaced # NoError => calls.compQuery = 1
       /\ calls.compSend > 0 => emBalance > 5000
       /\ error.step \in {"fund_blockhash", "fund_sign", "fund_send"} => calls.compSend = 0
FundingFailureCompensationWitness ==
    /\ error.step = "fund_confirm"
    /\ surfaced = error
    /\ calls.compQuery = 1
    /\ calls.compSend = 1

\* C4. The error thrown to the caller is the original error of the failing
\* step, also when the compensating refund itself fails.
OriginalErrorSurfaced ==
    (result = "error" /\ error # NoError) =>
       /\ surfaced = error
       /\ surfaced.step \notin {"em_balance", "em_blockhash", "em_send"}
       /\ (toast # "none" => toast = ErrorMessage(error))
OriginalErrorSurfacedWitness ==
    result = "error" /\ refundError # NoError /\ surfaced = error /\ toast # "none"

\* C5 as claimed. When a step fails and the compensating refund also fails,
\* the compensation failure is reported to the caller with the surfaced error.
CompensationFailureReported ==
    (result = "error" /\ refundError # NoError) => refundError \in ReportedToCaller

\* C5. When a step fails and the compensating refund also fails, the
\* compensation failure is written to the console log, and the caller receives
\* the original error alone: nothing is appended to it.
CompensationFailureLogged ==
    (result = "error" /\ refundError # NoError) =>
       /\ refundError \in logged
       /\ error \in logged
       /\ ReportedToCaller = {error}
       /\ (toast # "none" => toast = ErrorMessage(error))
CompensationFailureLoggedWitness ==
    result = "error" /\ refundError.step = "em_send" /\ toast # "none"

\* C6. Order of the saga: no operate-phase call before the funding transfer is
\* confirmed, the success-path refund starts only after every requested
\* operate-phase action succeeded, success is returned only after the refund
\* step.
SagaOrder ==
    /\ (calls.createMint > 0 \/ calls.mintTo > 0 \/ pc \in OperateSteps) => fundConfirmed
    /\ (calls.balanceQuery > 0 \/ pc \in RefundSteps) =>
          mintDone /\ (initialSupply > 0 => mintToDone)
    /\ (tokenType = "light" /\ result = "success") =>
          refundStep \in {"skipped", "transferred"}
SagaOrderWitness ==
    result = "success" /\ initialSupply > 0 /\ mintToDone /\ refundStep = "transferred"

\* C7 as claimed. Nothing is retried: funding, create-mint, mint-to and the
\* refund transfer are each submitted at most once in one execution.
NoSecondSubmission ==
    /\ calls.fundSend <= 1
    /\ calls.createMint <= 1
    /\ calls.mintTo <= 1
    /\ calls.refundSend + calls.compSend <= 1

\* C7. Funding, create-mint and mint-to are each submitted at most once; the
\* refund transfer is submitted at most once on the success path and at most
\* once more by the compensation, the two together only when the refund
\* step's own submission or confirmation failed.
BoundedSubmissions ==
    /\ calls.sign <= 1
    /\ calls.fundSend <= 1
    /\ calls.createMint <= 1
    /\ calls.mintTo <= 1
    /\ calls.refundSend <= 1
    /\ calls.compSend <= 1
    /\ calls.refundSend + calls.compSend = 2 => error.step \in {"refund_send", "refund_confirm"}
BoundedSubmissionsWitness ==
    calls.refundSend = 1 /\ calls.compSend = 1 /\ error.step = "refund_confirm"

\* C8. Every transaction the saga submits (fund, refund, compensating refund)
\* is followed by a blocking confirmation wait before the saga proceeds,
\* returns or throws.
EverySubmissionAwaited ==
    /\ "fund" \in unconfirmed => pc = "fund_confirm"
    /\ "refund" \in unconfirmed => pc = "refund_confirm"
    /\ "emergency" \in unconfirmed => pc = "em_confirm"

\* C9. If the issuance fails before the funding transaction is submitted
\* (key generation exhausted, or the user declines to sign), no funds move: no
\* transaction of any kind is submitted in that execution.
NoFundsMoveBeforeFunding ==
    error.step \in {"keygen", "fund_sign"} =>
       /\ calls.fundSend = 0
       /\ calls.createMint = 0
       /\ calls.mintTo = 0
       /\ calls.refundSend = 0
       /\ calls.compSend = 0
       /\ unconfirmed = {}
       /\ ephBalance = 0
NoFundsMoveBeforeFundingWitness ==
    /\ error = Err("fund_sign", "SigningDeclined")
    /\ surfaced = error
    /\ calls.compQuery = 1
    /\ emBalance = 0

\* C10. When the field-membership predicate is false for every generated key,
\* generateCompressedKeypair throws after exactly 1000 attempts.
KeygenBound ==
    /\ attempts <= 1000
    /\ error.kind = "ConstraintExhausted" => attempts = 1000
KeygenBoundWitness ==
    error.kind = "ConstraintExhausted" /\ attempts = 1000 /\ flashPayer = 0

\* ------------------------------------------------ properties of the encoder
\* A decoder of the wire format, reading the fields in wire order.
ReadUInt32LE(b, at) == b[at] + 256 * b[at + 1] + 65536 * b[at + 2] + 16777216 * b[at + 3]
ReadField(b, at) ==
    LET n == ReadUInt32LE(b, at)
    IN  [len |-> n, bytes |-> SubSeq(b, at + 4, at + 3 + n), next |-> at + 4 + n]
Decoded(b) ==
    LET n == ReadField(b, 2)
        y == ReadField(b, n.next)
        u == ReadField(b, y.next)
        r == u.next
    IN  [discriminator |-> b[1],
         name |-> n.bytes, nameLen |-> n.len,
         symbol |-> y.bytes, symbolLen |-> y.len,
         uri |-> u.bytes, uriLen |-> u.len,
         royaltyLow |-> b[r], royaltyHigh |-> b[r + 1],
         royalty |-> b[r] + 256 * b[r + 1],
         markers |-> SubSeq(b, r + 2, r + 4),
         mutableFlag |-> b[r + 5],
         collectionDetails |-> b[r + 6],
         size |-> r + 6]
IsPrefix(p, s) == Len(p) <= Len(s) /\ p = SubSeq(s, 1, Len(p))
Returned == encoded.status = "ok"

\* C11. Truncation is byte-exact and never rejects: the encoded name, symbol
\* and uri hold at most 32, 10 and 200 bytes, the leading bytes of the input,
\* also for multi-byte UTF-8 strings; a 40-byte ASCII name gets the length
\* prefix 32 and its first 32 bytes.
TruncationByteExact ==
    Returned =>
       LET d == Decoded(encoded.bytes)
       IN  /\ d.nameLen <= 32 /\ IsPrefix(d.name, BufferFrom(metadata.name))
           /\ d.symbolLen <= 10 /\ IsPrefix(d.symbol, BufferFrom(metadata.symbol))
           /\ d.uriLen <= 200 /\ IsPrefix(d.uri, BufferFrom(metadata.uri))
           /\ (metadata.name = Rep(65, 40) => d.nameLen = 32 /\ d.name = Rep(65, 32))

\* C12. Wire layout: discriminator, then name, symbol and uri each as a 4-byte
\* little-endian length prefix counting the bytes that follow it, 2 bytes of
\* royalty, three 0 bytes, the mutability flag and a final 0 byte; 20 bytes
\* plus the three string lengths in total, 40 for "My Token", "MTK",
\* "https://x"; the option markers are 0 also when creators are given.
WireLayout ==
    Returned =>
       LET b == encoded.bytes
           d == Decoded(b)
       IN  /\ b = <<33>>
                  \o <<d.nameLen % 256, (d.nameLen \div 256) % 256, 0, 0>> \o d.name
                  \o <<d.symbolLen % 256, (d.symbolLen \div 256) % 256, 0, 0>> \o d.symbol
                  \o <<d.uriLen % 256, (d.uriLen \div 256) % 256, 0, 0>> \o d.uri
                  \o <<d.royaltyLow, d.royaltyHigh>>
                  \o <<0, 0, 0>> \o <<d.mutableFlag>> \o <<0>>
           /\ Len(d.name) = d.nameLen /\ Len(d.symbol) = d.symbolLen /\ Len(d.uri) = d.uriLen
           /\ d.mutableFlag \in {0, 1}
           /\ Len(b) = 20 + d.nameLen + d.symbolLen + d.uriLen
           /\ d.size = Len(b)
           /\ (metadata.name = MyToken /\ metadata.symbol = MTK /\ metadata.uri = HttpsX
                  /\ SellerFeeOf(metadata) = 0) =>
                 b = <<33, 8, 0, 0, 0>> \o MyToken \o <<3, 0, 0, 0>> \o MTK
                        \o <<9, 0, 0, 0>> \o HttpsX \o <<0, 0, 0, 0, 0, 1, 0>>
WireLayoutWitness ==
    /\ Returned
    /\ metadata.name = MyToken /\ metadata.symbol = MTK /\ metadata.uri = HttpsX
    /\ metadata.creators = 1
    /\ Len(encoded.bytes) = 40

\* C13. Round trip: decoding the encoder's output recovers name, symbol and
\* uri truncated to their byte limits and the royalty unchanged.
RoundTrip ==
    pc = "enc_done" =>
       /\ Returned
       /\ LET d == Decoded(encoded.bytes)
          IN  /\ d.name = Take(BufferFrom(metadata.name), 32)
              /\ d.symbol = Take(BufferFrom(metadata.symbol), 10)
              /\ d.uri = Take(BufferFrom(metadata.uri), 200)
              /\ d.royalty = SellerFeeOf(metadata)

\* C14 as claimed. The flag byte is 1 exactly when the payload is mutable and
\* 0 when it is not.
MutabilityFlagReflectsPayload ==
    Returned => Decoded(encoded.bytes).mutableFlag = (IF metadata.mutable THEN 1 ELSE 0)

\* C14. The flag byte is 1 for every payload: the encoder hard-codes it and
\* reads no mutability attribute.
MutabilityFlagAlwaysSet ==
    Returned => Decoded(encoded.bytes).mutableFlag = 1
MutabilityFlagAlwaysSetWitness ==
    Returned /\ ~metadata.mutable /\ Decoded(encoded.bytes).mutableFlag = 1

\* C15 as claimed. The royalty is not validated: a value above 10000, above
\* 65535 or negative is passed through and the encoder raises no error.
RoyaltyNeverRejected ==
    pc = "enc_done" => Returned

\* C15. The royalty is stored as an unsigned 16-bit little-endian value and is
\* not checked against 10000: every value in 0..65535 is stored unchanged and
\* an absent value as 0; a value above 65535 or negative is not passed through:
\* the 2-byte write raises a range error or keeps the low 16 bits.
RoyaltyStoredAsU16 ==
    pc = "enc_done" =>
       LET v == metadata.fee.value
           d == Decoded(encoded.bytes)
       IN  /\ ~metadata.fee.present => Returned /\ d.royaltyLow = 0 /\ d.royaltyHigh = 0
           /\ (metadata.fee.present /\ v >= 0 /\ v <= 65535) =>
                 Returned /\ d.royaltyLow = v % 256 /\ d.royaltyHigh = v \div 256
           /\ (metadata.fee.present /\ (v < 0 \/ v > 65535)) =>
                 \/ encoded.status = "RangeError"
                 \/ Returned /\ d.royalty = v % 65536
RoyaltyStoredAsU16Witness ==
    /\ Returned
    /\ metadata.fee = [present |-> TRUE, value |-> 10001]
    /\ Decoded(encoded.bytes).royalty = 10001

\* ------------------------------------------------- signers, refunds, keys
\* Program points of createLightToken before and after the wallet's signature.
BeforeUserSignature == {"cl_entry", "keygen", "fund_blockhash", "fund_sign"}
AfterUserSignature == {"fund_send", "fund_confirm"} \cup OperateSteps \cup RefundSteps \cup {"return"}
TxsOfKind(kinds) == {t \in txs : t.kind \in kinds}

\* C16. Within one execution of createLightToken the wallet's signTransaction
\* is requested exactly once, for the funding transfer, and never for the
\* operate or refund steps; every refund transfer, on the success path or
\* compensating, has the ephemeral account as fee payer and is signed by the
\* ephemeral key alone.
EphemeralPassThrough ==
    tokenType = "light" =>
       /\ calls.sign <= 1
       /\ pc \in BeforeUserSignature => calls.sign = 0
       /\ pc \in AfterUserSignature => calls.sign = 1
       /\ result = "success" => calls.sign = 1
       /\ \A t \in TxsOfKind({"fund"}) : t.signers = {"user"} /\ t.feePayer = "user"
       /\ \A t \in TxsOfKind({"createMint", "mintTo"}) :
             "user" \notin t.signers /\ t.feePayer = "flash"
       /\ \A t \in TxsOfKind({"refund", "emergency"}) :
             /\ t.feePayer = "flash"
             /\ t.signers = {"flash"}
             /\ t.from = "flash"
             /\ t.to = "user"
EphemeralPassThroughWitness ==
    /\ tokenType = "light"
    /\ calls.sign = 1
    /\ TxsOfKind({"refund"}) # {}
    /\ TxsOfKind({"emergency"}) # {}
    /\ TxsOfKind({"mintTo"}) # {}

\* C17. Whenever a refund transfer is issued, on the success path or as
\* compensation, its amount is the queried balance minus the reserve, so the
\* queried balance covers the amount plus any fee up to the reserve; no refund
\* transfer is issued when the queried balance is at or below the reserve.
RefundFeeSafety ==
    /\ \A t \in TxsOfKind({"refund"}) :
          /\ remainingBalance > minBuffer
          /\ t.lamports = remainingBalance - minBuffer
          /\ \A fee \in RefundFees \cup {0, minBuffer} : t.lamports + fee <= remainingBalance
    /\ \A t \in TxsOfKind({"emergency"}) :
          /\ emBalance > emergencyBuffer
          /\ t.lamports = emBalance - emergencyBuffer
          /\ \A fee \in RefundFees \cup {0, emergencyBuffer} : t.lamports + fee <= emBalance
    /\ (calls.balanceQuery = 1 /\ remainingBalance <= minBuffer) =>
          calls.refundSend = 0 /\ TxsOfKind({"refund"}) = {}
    /\ (calls.compQuery = 1 /\ refundError = NoError /\ emBalance <= emergencyBuffer) =>
          calls.compSend = 0 /\ TxsOfKind({"emergency"}) = {}
RefundFeeSafetyWitness ==
    /\ TxsOfKind({"refund"}) = {RefundTx("refund", 4992500)}
    /\ remainingBalance = 4997500
    /\ TxsOfKind({"emergency"}) = {RefundTx("emergency", 4992500)}
    /\ emBalance = 4997500

\* C18. Every execution of createLightToken generates its own key pair, no two
\* executions use the same key pair, and the key is written neither to the
\* value returned to the caller nor to the token record handed to the registry.
EphemeralKeyScoped ==
    /\ flashPayer # 0 => flashPayer \notin pastKeys
    /\ (tokenType = "light" /\ pc \in AfterUserSignature \cup {"fund_blockhash", "fund_sign"}) =>
          flashPayer # 0
    /\ \A f \in DOMAIN returned : returned[f] # "flash"
    /\ \A f \in DOMAIN tokenRecord \ {"initialSupply"} : tokenRecord[f] # "flash"
    /\ tokenRecord.initialSupply \subseteq Supplies
EphemeralKeyScopedWitness ==
    /\ pastKeys = {1}
    /\ flashPayer = 2
    /\ tokenRecord = TokenRecord(LightResult(initialSupply), "light", network, initialSupply)

\* C19 as claimed. After a successful issuance in either variant the mint
\* authority of the created mint is the user's identity.
MintOwnedByUser ==
    result = "success" => mintAuthority = "user"

\* C19. After a successful standard issuance the mint authority is the user's
\* identity; after a successful compressed issuance the mint authority is the
\* ephemeral account, which also signs the mint-to action as authority.
MintAuthorityByVariant ==
    /\ (result = "success" /\ tokenType = "spl") =>
          /\ mintAuthority = "user"
          /\ \A t \in TxsOfKind({"spl"}) : t.authority = "user" /\ t.signers = {"mint", "user"}
    /\ (result = "success" /\ tokenType = "light") =>
          /\ mintAuthority = "flash"
          /\ \A t \in TxsOfKind({"createMint", "mintTo"}) : t.authority = "flash"
MintAuthorityByVariantWitness ==
    /\ result = "success"
    /\ tokenType = "light"
    /\ mintAuthority = "flash"
    /\ tokenRecord.creator = "user"

\* C20 as claimed. When an image is set and uploadMetadataToPinata throws,
\* createSPLToken does not abort because of it: it carries on with a fallback
\* uri, adds the metadata instruction and goes on to signing and submission.
PinFailureDoesNotAbort ==
    uploadThrew =>
       /\ error.step # "spl_fallback"
       /\ pc \in {"spl_supply", "spl_blockhash", "spl_partial_sign", "spl_sign", "spl_send", "spl_confirm",
                  "spl_return"} =>
             /\ metadataURI = "fallback"
             /\ instructions[3] = "createMetadata"

\* ---------------------------------------------------- the standard path
SplSteps == {"spl_entry", "spl_rent", "spl_upload", "spl_fallback", "spl_metadata",
             "spl_supply", "spl_blockhash", "spl_partial_sign", "spl_sign", "spl_send",
             "spl_confirm", "spl_return", "spl_catch"}

\* C21. In the standard path every error thrown by createSPLToken (blockhash
\* fetch, signing declined, submission, confirmation) reaches the caller
\* unchanged and nothing is done to recover: no second submission, no refund
\* or compensating step, and at most one transaction per call, whose only
\* fee payer is the user.
StandardPathNoRecovery ==
    tokenType = "spl" =>
       /\ calls.splSend <= 1
       /\ calls.splConfirm <= 1
       /\ calls.sign <= 1
       /\ calls.fundSend + calls.refundSend + calls.compSend = 0
       /\ calls.balanceQuery + calls.compQuery = 0
       /\ \A t \in txs : t.kind = "spl" /\ t.feePayer = "user"
       /\ Cardinality(txs) <= 1
       /\ (result = "error" /\ error # NoError) =>
             /\ surfaced = error
             /\ refundError = NoError
             /\ (toast # "none" => toast = ErrorMessage(error))
             /\ (error.step \in {"spl_rent", "spl_fallback", "spl_blockhash",
                                 "spl_partial_sign", "spl_sign"} => calls.splSend = 0)
             /\ (error.step = "spl_send" => calls.splConfirm = 0)
StandardPathNoRecoveryWitness ==
    /\ tokenType = "spl"
    /\ error = Err("spl_confirm", "ConfirmationFailure")
    /\ surfaced = error
    /\ calls.splSend = 1
    /\ Cardinality(txs) = 1
    /\ toast = "ConfirmationFailure"

\* C22. In the standard path the recent blockhash and the fee payer are set on
\* the transaction before any signature, the mint key pair signs first, only
\* then is the wallet asked to sign, and the transaction is submitted only
\* with both signatures on it.
SigningOrder ==
    /\ txSigned # {} => txReady
    /\ "user" \in txSigned => "mint" \in txSigned
    /\ (tokenType = "spl" /\ calls.sign > 0) => "mint" \in txSigned /\ txReady
    /\ (calls.splSend > 0 \/ pc = "spl_send") => txSigned = {"mint", "user"} /\ txReady
    /\ \A t \in TxsOfKind({"spl"}) : t.signers = {"mint", "user"}
SigningOrderWitness ==
    /\ calls.splSend = 1
    /\ calls.sign = 1
    /\ txReady
    /\ txSigned = {"mint", "user"}
    /\ pc = "spl_confirm"

\* ------------------------------------------------------------- freshness
\* C23. The funding transfer, the success-path refund and the compensating
\* refund each carry a blockhash fetched for them right before they are
\* signed: no two submitted transactions carry the same blockhash, each
\* carries the latest one fetched, and no transaction is submitted twice.
FreshPlanPerSubmission ==
    /\ \A a \in submitted : \A b \in submitted : a.blockhash = b.blockhash => a.kind = b.kind
    /\ \A a \in submitted : a.blockhash >= 1 /\ a.blockhash <= fetched
    /\ Cardinality(submitted) <= fetched
    /\ pc \in {"fund_sign", "fund_send"} => fetched = 1
    /\ pc = "refund_send" => fetched = 2 /\ Submission("fund", 1) \in submitted
    /\ pc = "em_send" => \A a \in submitted : a.blockhash < fetched
    /\ calls.fundSend <= 1 /\ calls.refundSend <= 1 /\ calls.compSend <= 1
FreshPlanPerSubmissionWitness ==
    submitted = {Submission("fund", 1), Submission("refund", 2), Submission("emergency", 3)}

\* ------------------------------------------------------------ termination
\* createLightToken has handed control back to handleSubmit.
SagaEnded == pc \in {"hs_success", "hs_catch"}

\* The saga has stopped, or is about to rethrow, after a confirmed funding.
SagaStoppedAfterFunding ==
    tokenType = "light" /\ fundConfirmed /\ pc \in {"return", "throw", "hs_success", "hs_catch"}

\* C24. When every collaborator call eventually returns or fails, every
\* execution of createLightToken eventually ends, by returning or by throwing;
\* and once the funding transfer is confirmed it never stops without having
\* queried the balance for the refund or for the compensation.
SagaTerminates ==
    /\ [](pc = "cl_entry" => <>SagaEnded)
    /\ [](SagaStoppedAfterFunding => calls.balanceQuery + calls.compQuery >= 1)
    /\ []((SagaStoppedAfterFunding /\ result = "success") => calls.balanceQuery = 1)
    /\ []((SagaStoppedAfterFunding /\ result = "error") => calls.compQuery = 1)
SagaTerminatesWitness ==
    /\ tokenType = "light"
    /\ fundConfirmed
    /\ pc = "hs_catch"
    /\ error.step = "mint_to"
    /\ calls.compQuery = 1

FirstSuccessReturned ==
    /\ fitsSeen <= 1
    /\ flashPayer # 0 => keyFits /\ fitsSeen = 1
    /\ flashPayer = 0 => ~keyFits /\ fitsSeen = 0
    /\ pc = "keygen" => fitsSeen = 0 /\ flashPayer = 0
    /\ fitsSeen = 1 => pc # "keygen"
    /\ error.kind = "ConstraintExhausted" => fitsSeen = 0 /\ attempts = maxAttempts
FirstSuccessReturnedWitness ==
    /\ pc = "fund_blockhash"
    /\ flashPayer = 2
    /\ keyFits
    /\ fitsSeen = 1

\* ---------------------------------------------------------- operate phase
\* C27. mintToCompressed is called if and only if the initial supply is
\* greater than zero, as a submission of its own and only after
\* createCompressedMint has succeeded; both have the ephemeral account as fee
\* payer and authority; when createCompressedMint fails, mintToCompressed is
\* never called.
MintToOnlyOnRequest ==
    /\ calls.mintTo > 0 => initialSupply > 0 /\ mintDone /\ calls.createMint = 1
    /\ pc = "mint_to" => initialSupply > 0 /\ mintDone /\ calls.mintTo = 0
    /\ (tokenType = "light" /\ (pc \in RefundSteps \/ result = "success")) =>
          /\ calls.createMint = 1
          /\ calls.mintTo = (IF initialSupply > 0 THEN 1 ELSE 0)
          /\ mintToDone <=> initialSupply > 0
    /\ error.step = "create_mint" => calls.mintTo = 0 /\ ~mintDone /\ ~mintToDone
    /\ TxsOfKind({"mintTo"}) # {} => CreateMintCall \in txs
    /\ \A t \in TxsOfKind({"createMint", "mintTo"}) :
          t.feePayer = "flash" /\ t.authority = "flash" /\ t.signers = {"flash"}
MintToOnlyOnRequestWitness ==
    /\ result = "success"
    /\ initialSupply > 0
    /\ calls.createMint = 1
    /\ calls.mintTo = 1
    /\ TxsOfKind({"createMint", "mintTo"}) = {CreateMintCall, MintToCall}

\* ----------------------------------------------------- instruction order
\* The transaction of createSPLToken is assembled: from the blockhash fetch on.
SplAssembled ==
    /\ tokenType = "spl"
    /\ pc \in {"spl_blockhash", "spl_partial_sign", "spl_sign", "spl_send", "spl_confirm",
               "spl_return"}

\* C28. The single transaction of the standard path holds, in this order:
\* create mint account, initialize mint, the metadata instruction when there
\* is one, then create associated token account followed by mint-to when the
\* initial supply is greater than zero; mint-to never appears without the
\* associated-token-account creation right before it.
InstructionOrder ==
    /\ SplAssembled =>
          instructions =
             <<"createAccount", "initializeMint">>
                \o (IF metadataURI # "none" THEN <<"createMetadata">> ELSE <<>>)
                \o (IF initialSupply > 0
                       THEN <<"createAssociatedTokenAccount", "mintTo">>
                       ELSE <<>>)
    /\ \A i \in 1..Len(instructions) :
          instructions[i] = "mintTo" =>
             i > 1 /\ instructions[i - 1] = "createAssociatedTokenAccount"
    /\ \A i \in 1..Len(instructions) :
          instructions[i] = "createMetadata" => i = 3
InstructionOrderWitness ==
    /\ pc = "spl_send"
    /\ instructions = <<"createAccount", "initializeMint", "createMetadata",
                        "createAssociatedTokenAccount", "mintTo">>

\* --------------------------------------------------------- flow of funds
\* Transfers of lamports among the entries handed to the ledger.
Transfers == TxsOfKind({"fund", "refund", "emergency"})

\* C29. Every transfer out of the ephemeral account, the success-path refund
\* and the compensating refund, goes to the user that paid the funding
\* transfer and to nobody else; the saga issues no other transfer from the
\* ephemeral account.
FundsFlowBackToFunder ==
    /\ \A t \in Transfers :
          t.from = "flash" =>
             /\ t.kind \in {"refund", "emergency"}
             /\ t.to = "user"
             /\ \E f \in TxsOfKind({"fund"}) : f.from = t.to /\ f.to = t.from
    /\ \A t \in Transfers : t.from # "flash" => t = FundTx
    /\ \A t \in txs \ Transfers : t.lamports = 0
FundsFlowBackToFunderWitness ==
    /\ FundTx \in txs
    /\ result = "success"
    /\ \E t \in TxsOfKind({"refund"}) : t.lamports = 4994000 /\ t.to = "user"

\* ------------------------------------------------- completed issuances
\* The compressed mint exists and every requested mint-to has succeeded.
IssuanceCompleted ==
    tokenType = "light" /\ mintDone /\ (initialSupply > 0 => mintToDone)

\* C30 as claimed. Once the compressed mint is created and every requested
\* mint-to has succeeded, the issuance is reported as successful and the
\* token is recorded; a failure of the refund step does not make it a failure.
CompletedIssuanceReported ==
    IssuanceCompleted =>
       /\ result # "error"
       /\ pc = "finally" => tokenRecord.mint = "lightMint" /\ toast = "none"

\* ------------------------------------------------------ recorded network
\* C31 as claimed. The network recorded for a created token is the network of
\* the endpoint the issuance was submitted to, whatever was selected in the
\* NetworkSelector before or between issuances.
RecordedNetworkIsSubmitted ==
    tokenRecord # NoToken => tokenRecord.network = ProviderNetwork

\* C32 as claimed. For every decimals value d in 0..18 entered in the form, on either
\* path the mint is created with d decimals, a positive supply is scaled by 10^d and
\* d is recorded in the history entry; 9 is used when the field is empty.
DecimalsAsEntered ==
    pc = "form_done" =>
       /\ \A d \in 0..MaxDecimals :
             form.decimals = Digits(d) =>
                /\ parsed.mintDecimals = d
                /\ parsed.recorded = d
                /\ (ParseSupply(form.initialSupply) > 0) => (parsed.amount.exp10 = d)
       /\ form.decimals = <<>> =>
             /\ parsed.mintDecimals = DefaultDecimals
             /\ parsed.recorded = DefaultDecimals

\* C33. At most one execution of handleSubmit is between setLoading(true) and its
\* finally block at any time; loading is set exactly while one is, so the thread of
\* control is back at rest, with loading false, whenever every submission has completed.
SingleIssuanceInFlight ==
    /\ inFlight \in {0, 1}
    /\ loading <=> inFlight = 1
    /\ pc = "idle" <=> ~loading
    /\ (pc = "idle") => (~SplAssembled /\ inFlight = 0)

SingleIssuanceInFlightWitness ==
    /\ runs = 2
    /\ pc = "idle"
    /\ result = "error"
    /\ pastKeys # {}
    /\ ~loading

\* C34. onTokenCreated has been called once when the issuance of this submission
\* returned and handleSubmit went on, and never otherwise: not after a throw and not
\* when a pre-check rejected the submission. The form holds the initial values after
\* a call of onTokenCreated and what was submitted in every other case.
NotifiedOncePerSuccess ==
    /\ created \in {0, 1}
    /\ pc \in {"finally", "idle"} => created = IF result = "success" THEN 1 ELSE 0
    /\ (created = 1) => (result = "success" /\ tokenRecord \in CreatedTokens)
    /\ created = 0 => tokenRecord = NoToken
    /\ (wallet = "none" \/ ~formOk) => (created = 0 /\ result = "none")
    /\ formData = IF created = 1
                     THEN EmptyForm
                     ELSE FormFields(formOk, initialSupply, hasImage)

NotifiedOncePerSuccessWitness ==
    /\ runs = 2
    /\ pc = "idle"
    /\ result = "error"
    /\ created = 0
    /\ formData = FormFields(TRUE, 1, TRUE)

\* C35. In every transaction the standard path assembles, the metadata instruction is
\* present exactly when the form has an image, and then its URI is the pinned or the
\* fallback one; without an image the mint is created with no metadata instruction.
MetadataIffImage ==
    SplAssembled =>
       /\ (\E i \in 1..Len(instructions) : instructions[i] = "createMetadata") <=> hasImage
       /\ hasImage => metadataURI \in {"pinned", "fallback"}
       /\ ~hasImage => metadataURI = "none"

MetadataIffImageWitness ==
    /\ pc = "spl_return"
    /\ formOk
    /\ ~hasImage
    /\ instructions = MintInstructions

\* C36. The hook's list is what the item under the storage key reads back as, an
\* absent item reading as the empty list; a call that lengthens the list adds one
\* token after the unchanged earlier ones, and a call that shortens it leaves the list
\* empty and the item absent.
RegistryConsistent ==
    /\ [](tokens = InitialTokens(stored))
    /\ [][(Len(tokens') > Len(tokens)) =>
             (/\ Len(tokens') = Len(tokens) + 1
              /\ SubSeq(tokens', 1, Len(tokens)) = tokens
              /\ tokens'[Len(tokens')] \in CreatedTokens
              /\ stored'.present)]_vars
    /\ [][(Len(tokens') < Len(tokens)) => (tokens' = <<>> /\ stored' = NoItem)]_vars

RegistryConsistentWitness ==
    /\ pc = "registry"
    /\ Len(tokens) = 2
    /\ tokens[1].initialSupply = {}
    /\ tokens[2].initialSupply = {1}
    /\ stored = Item(Stringify(tokens))

====
